---- MODULE Spec2Model ----
(***************************************************************************)
(* A model of the quiz bot of src/mcq_bot.py: the question generator, the  *)
(* session store (user_sessions), the settings (LANGUAGE, NUM_QUESTIONS),  *)
(* the question bank (mcq_bank and the file DB_FILE) and the Telegram      *)
(* handlers, stepped at their await points.                                *)
(*                                                                         *)
(* Text is modelled down to what the code looks at: a text is the list of  *)
(* its lines (text.split("\n")), a line is a list of chunks, a chunk is    *)
(* either a run of one whitespace character or a run of non-whitespace     *)
(* characters (a TLA+ string, whose Len is its number of characters).      *)
(* Short strings that the code parses (callback data, command arguments,   *)
(* str(uid)) are lists of one-character strings.                           *)
(***************************************************************************)
EXTENDS Integers, Sequences, FiniteSets, TLC

VARIABLES
    user_sessions,   \* dict uid -> [mcqs |-> list of question records]
    LANGUAGE,        \* the global LANGUAGE
    NUM_QUESTIONS,   \* the global NUM_QUESTIONS
    mcq_bank,        \* the in-memory bank: dict str(uid) -> list of records
    bank_file,       \* the file DB_FILE: [state, data]
    update_queue,    \* updates received and not yet dispatched, in arrival order
    tasks,           \* handler coroutines in flight, each at an await point
    nextId,          \* number of updates received so far (the next update id)
    messages,        \* the question messages sent: message id -> its state
    outbox,          \* the messages sent by the last step
    last,            \* what the last step was, and what it read
    gen              \* input and output of a bare call of generate_basic_mcqs

vars == <<user_sessions, LANGUAGE, NUM_QUESTIONS, mcq_bank, bank_file,
          update_queue, tasks, nextId, messages, outbox, last, gen>>

-----------------------------------------------------------------------------
(* Bounds of the model *)

MaxUpdates == 3
MaxQueue == 1

-----------------------------------------------------------------------------
(* Program constants *)

ADMIN_ID == 1
DefaultNumQuestions == 5
MinLineLen == 10
NumOptions == 4

Users == {1, 2}

-----------------------------------------------------------------------------
(* Strings *)

Min(a, b) == IF a < b THEN a ELSE b
Max(a, b) == IF a > b THEN a ELSE b

IsSpace(c) == c \in {" ", "\t"}

RECURSIVE LStrip(_)
LStrip(l) ==
    IF l = <<>> THEN <<>>
    ELSE IF IsSpace(Head(l)) THEN LStrip(Tail(l)) ELSE l

RECURSIVE RStrip(_)
RStrip(l) ==
    IF l = <<>> THEN <<>>
    ELSE IF IsSpace(l[Len(l)]) THEN RStrip(SubSeq(l, 1, Len(l) - 1)) ELSE l

\* str.strip()
Strip(l) == RStrip(LStrip(l))

\* len() of a line: the number of its characters
RECURSIVE StrLen(_)
StrLen(l) == IF l = <<>> THEN 0 ELSE Len(Head(l)) + StrLen(Tail(l))

\* the line as one string
RECURSIVE Join(_)
Join(l) == IF l = <<>> THEN "" ELSE Head(l) \o Join(Tail(l))

\* str.split(): the maximal runs of non-whitespace characters
RECURSIVE SplitWords(_, _)
SplitWords(l, cur) ==
    IF l = <<>> THEN (IF cur = "" THEN <<>> ELSE <<cur>>)
    ELSE IF IsSpace(Head(l))
         THEN (IF cur = "" THEN <<>> ELSE <<cur>>) \o SplitWords(Tail(l), "")
         ELSE SplitWords(Tail(l), cur \o Head(l))

Words(l) == SplitWords(l, "")

DigitChars == <<"0", "1", "2", "3", "4", "5", "6", "7", "8", "9">>

\* str(n), as a list of characters
RECURSIVE StrNat(_)
StrNat(n) ==
    IF n < 10 THEN <<DigitChars[n + 1]>>
    ELSE StrNat(n \div 10) \o <<DigitChars[(n % 10) + 1]>>

Str(n) == IF n < 0 THEN <<"-">> \o StrNat(0 - n) ELSE StrNat(n)

DigitVal(c) == CHOOSE d \in 0..9 : DigitChars[d + 1] = c

IsDigit(c) == \E d \in 0..9 : DigitChars[d + 1] = c

RECURSIVE NatOf(_, _)
NatOf(s, acc) ==
    IF s = <<>> THEN acc ELSE NatOf(Tail(s), 10 * acc + DigitVal(Head(s)))

\* int(s): [ok |-> FALSE] stands for ValueError
ParseInt(s) ==
    LET neg == s # <<>> /\ Head(s) = "-"
        body == IF neg THEN Tail(s) ELSE s
    IN  IF body # <<>> /\ \A i \in 1..Len(body) : IsDigit(body[i])
        THEN [ok |-> TRUE, val |-> IF neg THEN 0 - NatOf(body, 0) ELSE NatOf(body, 0)]
        ELSE [ok |-> FALSE, val |-> 0]

\* s.split(sep) for a one-character separator
RECURSIVE SplitOn(_, _, _)
SplitOn(s, sep, cur) ==
    IF s = <<>> THEN <<cur>>
    ELSE IF Head(s) = sep THEN <<cur>> \o SplitOn(Tail(s), sep, <<>>)
         ELSE SplitOn(Tail(s), sep, Append(cur, Head(s)))

-----------------------------------------------------------------------------
(* The question generator *)

\* [l.strip() for l in text.split("\n") if len(l.strip()) > 10]
RECURSIVE QualifyingLines(_)
QualifyingLines(text) ==
    IF text = <<>> THEN <<>>
    ELSE LET l == Strip(Head(text))
         IN  (IF StrLen(l) > MinLineLen THEN <<l>> ELSE <<>>)
             \o QualifyingLines(Tail(text))

\* lines[:k] for k >= 0
Take(s, k) == SubSeq(s, 1, Min(k, Len(s)))

\* a label that does not look at the language
QLangEnglish(lang) == "Question"

QLang(lang) == IF lang = "bn" THEN "[bn]Q" ELSE "Question"

ExplLang(lang) ==
    IF lang = "bn" THEN "[bn]The answer is found in this line."
    ELSE "The correct answer comes from this line."

\* the record appended for one line
Mcq(line, lang) ==
    LET words == Words(line)
        first_word == IF Len(words) > 0 THEN words[1] ELSE "Term"
        opt1 == first_word
        opt2 == IF Len(words) > 1 THEN words[2] ELSE "Option A"
        opt3 == IF Len(words) > 2 THEN words[3] ELSE "Option B"
        opt4 == "Option C"
    IN  [question |-> IF lang = "bn"
                      THEN QLang(lang) \o ": " \o first_word \o " [bn]which is correct?"
                      ELSE QLang(lang) \o ": Which of the following about '"
                           \o first_word \o "' is correct?",
         options |-> <<opt1, opt2, opt3, opt4>>,
         answer |-> 0,
         explanation |-> ExplLang(lang) \o " -> " \o Join(line)]

\* a slice one line too long
SliceLenOffByOne(num) == Max(1, num) + 1

\* lines[:max(1, num)]
SliceLen(num) == Max(1, num)

\* the loop over lines[:max(1, num)]; the slice is bound as a value, once
generate_basic_mcqs(text, num, lang) ==
    CHOOSE mcqs \in { [i \in 1..Len(lines) |-> Mcq(lines[i], lang)] :
                          lines \in {Take(QualifyingLines(text), SliceLen(num))} } :
        TRUE

-----------------------------------------------------------------------------
(* Sample documents *)

LParis == <<"Paris", " ", "is", " ", "the", " ", "capital">>
LPadded == <<" ", "\t", "photosynthesis", " ">>
LWater == <<"Water", " ", " ", "boils">>
LTen == <<"abcde", " ", "fghi">>
LBlank == <<" ", " ", " ", " ", " ", " ", " ", " ", " ", " ", " ", " ">>

TEmpty == << <<>> >>
TShort == <<LTen, LBlank>>
TOne == <<LBlank, LPadded>>
TTwo == <<LParis, LTen, LWater>>
TThree == <<LParis, LPadded, <<>>, LWater>>
TLong == <<LWater, LPadded, LParis>>

Texts == {TEmpty, TShort, TOne, TTwo, TThree}

\* "if not text": the text is the empty string
IsEmptyText(text) == text = << <<>> >>

-----------------------------------------------------------------------------
(* Dictionaries *)

EmptyDict == <<>>

Put(d, k, v) == [x \in (DOMAIN d) \cup {k} |-> IF x = k THEN v ELSE d[x]]

\* one quiz for the whole process: the session of the lowest user id
SessionMcqsOfFirst(sessions, uid) ==
    IF DOMAIN sessions = {} THEN <<>>
    ELSE sessions[CHOOSE u \in DOMAIN sessions :
                      \A v \in DOMAIN sessions : u <= v].mcqs

\* user_sessions.get(uid, {}).get("mcqs", [])
SessionMcqs(sessions, uid) ==
    IF uid \in DOMAIN sessions THEN sessions[uid].mcqs ELSE <<>>

RemoveAt(s, i) == SubSeq(s, 1, i - 1) \o SubSeq(s, i + 1, Len(s))

-----------------------------------------------------------------------------
(* The bank file *)

NoFile == [state |-> "absent", data |-> EmptyDict]
CorruptFile == [state |-> "corrupt", data |-> EmptyDict]
OkFile(data) == [state |-> "ok", data |-> data]

load_bank(file) == IF file.state = "ok" THEN file.data ELSE EmptyDict

save_bank(data) == OkFile(data)

FileExists(file) == file.state # "absent"

\* what the process finds in DB_FILE when it starts: no file, or the file of
\* an earlier run that holds an entry of user 2
OldList == generate_basic_mcqs(TTwo, DefaultNumQuestions, "en")

InitialFiles == {NoFile, OkFile(Put(EmptyDict, Str(2), OldList))}

\* the id of a message sent before this process started
OldMid == 0 - 1

\* the question messages in the chats when the process starts: none, or, after
\* the earlier run, the second question of user 2's quiz, never answered
OldMessages(file) ==
    IF file.state = "ok"
    THEN Put(EmptyDict, OldMid,
             [to |-> 2, index |-> 1, q |-> OldList[2], keyboard |-> TRUE,
              text |-> OldList[2].question])
    ELSE EmptyDict

-----------------------------------------------------------------------------
(* Uploaded documents and their extraction *)

Corrupt == << <<"%corrupt%">> >>

Files ==
    { [suffix |-> ".txt", content |-> TTwo],
      [suffix |-> ".txt", content |-> TShort],
      [suffix |-> ".txt", content |-> Corrupt],
      [suffix |-> ".docx", content |-> TLong],
      [suffix |-> ".pdf", content |-> Corrupt] }

\* fitz.open / docx.Document raise on a file they cannot read; the plain
\* read of any other file is wrapped in try/except and yields ""
ExtractText(file) ==
    IF file.suffix \in {".pdf", ".docx"}
    THEN IF file.content = Corrupt
         THEN [raised |-> TRUE, text |-> TEmpty]
         ELSE [raised |-> FALSE, text |-> file.content]
    ELSE IF file.content = Corrupt
         THEN [raised |-> FALSE, text |-> TEmpty]
         ELSE [raised |-> FALSE, text |-> file.content]

-----------------------------------------------------------------------------
(* Messages *)

NoQ == [question |-> "", options |-> <<>>, answer |-> 0, explanation |-> ""]

Msg(to, kind, text, index, q) ==
    [to |-> to, kind |-> kind, text |-> text, index |-> index, q |-> q]

Note(to, kind) == Msg(to, kind, "", 0 - 1, NoQ)

\* callback_data=f"{index}:{i}"
CallbackData(index, i) == Str(index) \o <<":">> \o Str(i)

\* feedback that names the option chosen instead of the correct one
ResultNamesChosen(q, chosen) ==
    IF chosen = q.answer THEN "Correct!"
    ELSE "Wrong! Correct: " \o q.options[chosen + 1]

\* the result line of the feedback
Result(q, chosen) ==
    IF chosen = q.answer THEN "Correct!"
    ELSE "Wrong! Correct: " \o q.options[q.answer + 1]

FeedbackText(q, chosen) ==
    q.question \o "\n\n" \o Result(q, chosen) \o "\n" \o q.explanation

-----------------------------------------------------------------------------
(* Initial state *)

NoGen == [text |-> TEmpty, num |-> 0, lang |-> "", called |-> FALSE, out |-> <<>>]

Init ==
    /\ user_sessions = EmptyDict
    /\ LANGUAGE = "bn"
    /\ NUM_QUESTIONS = DefaultNumQuestions
    /\ bank_file \in InitialFiles
    /\ mcq_bank = load_bank(bank_file)
    /\ update_queue = <<>>
    /\ tasks = <<>>
    /\ nextId = 0
    /\ messages = OldMessages(bank_file)
    /\ outbox = <<>>
    /\ last = [op |-> "init", id |-> 0 - 1, u |-> 0]
    /\ gen = NoGen

-----------------------------------------------------------------------------
(* Arrival of updates (the users' moves) *)

CanReceive == nextId < MaxUpdates /\ Len(update_queue) < MaxQueue

\* the library puts an update it fetched on its queue
Enqueue(upd) ==
    /\ update_queue' = Append(update_queue, upd)
    /\ nextId' = nextId + 1
    /\ outbox' = <<>>
    /\ last' = [op |-> "receive", id |-> upd.id, u |-> upd.u]
    /\ UNCHANGED <<user_sessions, LANGUAGE, NUM_QUESTIONS, mcq_bank, bank_file,
                   tasks, messages, gen>>

Receive(upd) == CanReceive /\ Enqueue(upd)

\* a user sends a document
RecvDocument ==
    \E u \in Users, f \in Files :
        Receive([id |-> nextId, u |-> u, type |-> "document", file |-> f])

\* the buttons pressed: the option the code marks correct and a wrong one
Taps == {0, 1}

\* a user presses a button of a question message of their chat that still
\* shows its keyboard
RecvCallback ==
    \E mid \in DOMAIN messages, k \in Taps :
        /\ messages[mid].keyboard
        /\ Receive([id |-> nextId, u |-> messages[mid].to, type |-> "callback",
                    data |-> CallbackData(messages[mid].index, k), mid |-> mid])

\* callback data this code never writes: no number, and a negative index
ForeignData == {<<"x">>, <<"-", "1", ":", "0">>}

\* a user presses a button of a message that an earlier deployment sent under
\* the same bot token, with callback data of its own
RecvForeignCallback ==
    \E mid \in DOMAIN messages, data \in ForeignData :
        /\ mid < 0
        /\ messages[mid].keyboard
        /\ Receive([id |-> nextId, u |-> messages[mid].to, type |-> "callback",
                    data |-> data, mid |-> mid])

\* arguments of /setlang and /setnum: a value the command takes, and one it
\* answers with its usage line
LangArgs == {<<"en">>, <<"fr">>}
NumArgs == {<<Str(0)>>, <<>>}

CommandArgs(cmd) ==
    IF cmd = "setlang" THEN LangArgs
    ELSE IF cmd = "setnum" THEN NumArgs
    ELSE {<<>>}

Commands == {"start", "setlang", "setnum", "admin", "backup", "dumpbank"}

\* a user sends a command
RecvCommand ==
    \E u \in Users, cmd \in Commands :
        \E args \in CommandArgs(cmd) :
            Receive([id |-> nextId, u |-> u, type |-> "command", cmd |-> cmd,
                     args |-> args])

-----------------------------------------------------------------------------
(* Dispatch.  main() builds the Application without concurrent_updates, so *)
(* run_polling() takes one update at a time from the queue and awaits its  *)
(* handler to the end before it takes the next.                            *)

\* a dispatcher that starts a handler while others are in flight
CanDispatchConcurrently(ts) == TRUE

CanDispatch(ts) == ts = <<>>

Dispatching(type) ==
    /\ update_queue # <<>>
    /\ Head(update_queue).type = type
    /\ CanDispatch(tasks)

DispatchingCommand(cmd) ==
    /\ Dispatching("command")
    /\ Head(update_queue).cmd = cmd

Step(op, upd) == [op |-> op, id |-> upd.id, u |-> upd.u]

-----------------------------------------------------------------------------
(* handle_file *)

\* entry of handle_file up to the awaits of get_file and download_to_drive
StartFile ==
    /\ Dispatching("document")
    /\ LET upd == Head(update_queue)
       IN  /\ tasks' = Append(tasks, [id |-> upd.id, u |-> upd.u,
                                      handler |-> "handle_file", pc |-> "extract",
                                      file |-> upd.file, mcqs |-> <<>>, index |-> 0])
           /\ last' = Step("start_file", upd)
    /\ update_queue' = Tail(update_queue)
    /\ outbox' = <<>>
    /\ UNCHANGED <<user_sessions, LANGUAGE, NUM_QUESTIONS, mcq_bank, bank_file,
                   nextId, messages, gen>>

\* a store that keeps the questions of the previous session
NewSessionMerged(old, mcqs) == [mcqs |-> old \o mcqs]

\* the session handle_file stores
NewSession(old, mcqs) == [mcqs |-> mcqs]

\* whether handle_file gives up before it generates
GivesUp(text) == IsEmptyText(text)

\* extraction, generation, the store of the session and the reply, up to the
\* await of that reply
FileStore(i) ==
    LET t == tasks[i]
        ex == ExtractText(t.file)
        mcqs == generate_basic_mcqs(ex.text, NUM_QUESTIONS, LANGUAGE)
    IN  /\ t.handler = "handle_file" /\ t.pc = "extract"
        /\ IF ex.raised
           THEN /\ tasks' = RemoveAt(tasks, i)
                /\ outbox' = <<>>
                /\ last' = Step("file_raised", t)
                /\ UNCHANGED user_sessions
           ELSE IF GivesUp(ex.text)
           THEN /\ tasks' = RemoveAt(tasks, i)
                /\ outbox' = <<Note(t.u, "extract_failed")>>
                /\ last' = Step("file_failed", t)
                /\ UNCHANGED user_sessions
           ELSE /\ user_sessions' =
                       Put(user_sessions, t.u,
                           NewSession(SessionMcqs(user_sessions, t.u), mcqs))
                /\ tasks' = [tasks EXCEPT ![i].pc = "send_question",
                                          ![i].mcqs = mcqs, ![i].index = 0]
                /\ outbox' = <<Msg(t.u, "generated", Join(Str(Len(mcqs))), 0 - 1, NoQ)>>
                /\ last' = Step("file_stored", t)
        /\ UNCHANGED <<LANGUAGE, NUM_QUESTIONS, mcq_bank, bank_file, update_queue,
                       nextId, messages, gen>>

-----------------------------------------------------------------------------
(* send_question, called last by handle_file and by handle_answer *)

SendQuestion(i) ==
    LET t == tasks[i]
        mcqs == SessionMcqs(user_sessions, t.u)
    IN  /\ t.pc = "send_question"
        /\ IF t.index >= Len(mcqs)
           THEN /\ outbox' = <<Note(t.u, "done")>>
                /\ UNCHANGED messages
           ELSE LET q == mcqs[t.index + 1]
                IN  /\ outbox' = <<Msg(t.u, "question", q.question, t.index, q)>>
                    /\ messages' = Put(messages, t.id,
                                       [to |-> t.u, index |-> t.index, q |-> q,
                                        keyboard |-> TRUE, text |-> q.question])
        /\ tasks' = RemoveAt(tasks, i)
        /\ last' = Step(IF t.handler = "handle_file" THEN "file_sent" ELSE "answer_sent", t)
                      @@ [index |-> t.index]
        /\ UNCHANGED <<user_sessions, LANGUAGE, NUM_QUESTIONS, mcq_bank, bank_file,
                       update_queue, nextId, gen>>

-----------------------------------------------------------------------------
(* handle_answer *)

\* entry of handle_answer up to the await of query.answer()
StartAnswer ==
    /\ Dispatching("callback")
    /\ LET upd == Head(update_queue)
       IN  /\ tasks' = Append(tasks, [id |-> upd.id, u |-> upd.u,
                                      handler |-> "handle_answer", pc |-> "grade",
                                      data |-> upd.data, mid |-> upd.mid,
                                      mcqs |-> <<>>, index |-> 0])
           /\ last' = Step("start_answer", upd)
    /\ update_queue' = Tail(update_queue)
    /\ outbox' = <<>>
    /\ UNCHANGED <<user_sessions, LANGUAGE, NUM_QUESTIONS, mcq_bank, bank_file,
                   nextId, messages, gen>>

\* index, chosen = map(int, query.data.split(":"))
ParseData(data) ==
    LET parts == SplitOn(data, ":", <<>>)
    IN  IF Len(parts) = 2 /\ ParseInt(parts[1]).ok /\ ParseInt(parts[2]).ok
        THEN [ok |-> TRUE, index |-> ParseInt(parts[1]).val,
              chosen |-> ParseInt(parts[2]).val]
        ELSE [ok |-> FALSE, index |-> 0, chosen |-> 0]

\* a check that forgets the negative indexes
IndexErrorUpperOnly(index, mcqs) == index >= Len(mcqs)

\* a check that also refuses the last question
IndexErrorStrict(index, mcqs) == index < 0 \/ index + 1 >= Len(mcqs)

\* the check of lines 128-130: whether the answer is refused
IndexError(index, mcqs) == index < 0 \/ index >= Len(mcqs)

\* query.edit_message_text(text): the message gets the text and loses its
\* keyboard; Telegram refuses an edit that changes nothing (BadRequest,
\* "message is not modified"), and the handler ends there
EditRefused(mid, text) ==
    /\ mid \in DOMAIN messages
    /\ ~messages[mid].keyboard
    /\ messages[mid].text = text

Edited(mid, text) ==
    IF mid \in DOMAIN messages
    THEN [messages EXCEPT ![mid].keyboard = FALSE, ![mid].text = text]
    ELSE messages

\* mcqs[index]: Python counts a negative index from the end of the list and
\* raises IndexError outside -len .. len-1
InRange(index, mcqs) == index >= 0 - Len(mcqs) /\ index < Len(mcqs)

Item(mcqs, index) ==
    IF index >= 0 THEN mcqs[index + 1] ELSE mcqs[Len(mcqs) + index + 1]

\* going on with the question just answered
NextIndexSame(index) == index

\* the index send_question is called with after a graded answer
NextIndex(index) == index + 1

\* parsing, the read of the session, grading and the edit of the message, up
\* to the await of that edit
AnswerGrade(i) ==
    LET t == tasks[i]
        p == ParseData(t.data)
        mcqs == SessionMcqs(user_sessions, t.u)
        q == Item(mcqs, p.index)
        text == IF ~p.ok THEN "Invalid response."
                ELSE IF IndexError(p.index, mcqs) THEN "Question index error."
                ELSE FeedbackText(q, p.chosen)
        raises == p.ok /\ ~IndexError(p.index, mcqs) /\ ~InRange(p.index, mcqs)
    IN  /\ t.handler = "handle_answer" /\ t.pc = "grade"
        /\ IF raises \/ EditRefused(t.mid, text)
           THEN /\ tasks' = RemoveAt(tasks, i)
                /\ outbox' = <<>>
                /\ last' = Step("answer_raised", t) @@ [index |-> p.index]
                /\ UNCHANGED messages
           ELSE /\ messages' = Edited(t.mid, text)
                /\ IF ~p.ok
                   THEN /\ tasks' = RemoveAt(tasks, i)
                        /\ outbox' = <<Note(t.u, "invalid_response")>>
                        /\ last' = Step("answer_invalid", t) @@ [index |-> 0 - 1]
                   ELSE IF IndexError(p.index, mcqs)
                   THEN /\ tasks' = RemoveAt(tasks, i)
                        /\ outbox' = <<Note(t.u, "index_error")>>
                        /\ last' = Step("answer_refused", t) @@ [index |-> p.index]
                   ELSE /\ tasks' = [tasks EXCEPT ![i].pc = "send_question",
                                                 ![i].mcqs = mcqs,
                                                 ![i].index = NextIndex(p.index)]
                        /\ outbox' = <<Msg(t.u, "feedback", Result(q, p.chosen),
                                           p.index, q)>>
                        /\ last' = Step("answer_graded", t)
                                     @@ [index |-> p.index, chosen |-> p.chosen]
        /\ UNCHANGED <<user_sessions, LANGUAGE, NUM_QUESTIONS, mcq_bank, bank_file,
                       update_queue, nextId, gen>>

-----------------------------------------------------------------------------
(* Commands.  None of them awaits before its effect, so each is one step. *)

Handled(op, msgs) ==
    /\ last' = Step(op, Head(update_queue))
    /\ outbox' = msgs
    /\ update_queue' = Tail(update_queue)
    /\ UNCHANGED <<tasks, nextId, messages, gen>>

Caller == Head(update_queue).u

Args == Head(update_queue).args

\* a check that lets through everyone but the admin
IsAdminInverted(uid) == uid # ADMIN_ID

\* a check that lets everyone through
IsAdminAnyone(uid) == TRUE

\* the check each of admin_command, backup_command and dumpbank_command makes
IsAdmin(uid) == uid = ADMIN_ID

start ==
    /\ DispatchingCommand("start")
    /\ Handled("start", <<Note(Caller, "welcome")>>)
    /\ UNCHANGED <<user_sessions, LANGUAGE, NUM_QUESTIONS, mcq_bank, bank_file>>

admin_command ==
    /\ DispatchingCommand("admin")
    /\ IF ~IsAdmin(Caller)
       THEN Handled("admin_denied", <<Note(Caller, "permission_denied")>>)
       ELSE Handled("admin", <<Note(Caller, "admin_help")>>)
    /\ UNCHANGED <<user_sessions, LANGUAGE, NUM_QUESTIONS, mcq_bank, bank_file>>

\* a merge that appends to the entry the bank already holds
MergeAppending(bank, sessions) ==
    LET folded == {u \in DOMAIN sessions : sessions[u].mcqs # <<>>}
        keys == {Str(u) : u \in folded}
    IN  [k \in (DOMAIN bank) \cup keys |->
            IF k \in keys
            THEN (IF k \in DOMAIN bank THEN bank[k] ELSE <<>>)
                 \o sessions[CHOOSE u \in folded : Str(u) = k].mcqs
            ELSE bank[k]]

\* the loop of backup_command over user_sessions.items()
Merge(bank, sessions) ==
    LET folded == {u \in DOMAIN sessions : sessions[u].mcqs # <<>>}
        keys == {Str(u) : u \in folded}
    IN  [k \in (DOMAIN bank) \cup keys |->
            IF k \in keys
            THEN sessions[CHOOSE u \in folded : Str(u) = k].mcqs
            ELSE bank[k]]

Changed(sessions) == \E u \in DOMAIN sessions : sessions[u].mcqs # <<>>

\* send_document(open(DB_FILE)) or the notice that there is no file
SendFile(to, file, missing) ==
    IF FileExists(file)
    THEN [to |-> to, kind |-> "document", text |-> "", index |-> 0 - 1, q |-> NoQ,
          file |-> file]
    ELSE Note(to, missing)

backup_command ==
    /\ DispatchingCommand("backup")
    /\ IF ~IsAdmin(Caller)
       THEN /\ Handled("backup_denied", <<Note(Caller, "permission_denied")>>)
            /\ UNCHANGED <<mcq_bank, bank_file>>
       ELSE /\ mcq_bank' = Merge(mcq_bank, user_sessions)
            /\ bank_file' = IF Changed(user_sessions)
                            THEN save_bank(mcq_bank')
                            ELSE bank_file
            /\ Handled("backup", <<Note(Caller, "backup_saved"),
                                   SendFile(Caller, bank_file', "no_bank_file")>>)
    /\ UNCHANGED <<user_sessions, LANGUAGE, NUM_QUESTIONS>>

dumpbank_command ==
    /\ DispatchingCommand("dumpbank")
    /\ IF ~IsAdmin(Caller)
       THEN Handled("dumpbank_denied", <<Note(Caller, "permission_denied")>>)
       ELSE Handled("dumpbank", <<SendFile(Caller, bank_file, "no_file_found")>>)
    /\ UNCHANGED <<user_sessions, LANGUAGE, NUM_QUESTIONS, mcq_bank, bank_file>>

set_lang ==
    /\ DispatchingCommand("setlang")
    /\ IF Args # <<>> /\ Args[1] \in {"en", "bn"}
       THEN /\ LANGUAGE' = Args[1]
            /\ Handled("setlang", <<Note(Caller, "language_set")>>)
       ELSE /\ Handled("setlang_usage", <<Note(Caller, "setlang_usage")>>)
            /\ UNCHANGED LANGUAGE
    /\ UNCHANGED <<user_sessions, NUM_QUESTIONS, mcq_bank, bank_file>>

\* int(context.args[0]) inside try/except: no argument (IndexError) and no
\* number (ValueError) both end in the usage reply
set_num ==
    /\ DispatchingCommand("setnum")
    /\ IF Args # <<>> /\ ParseInt(Args[1]).ok
       THEN /\ NUM_QUESTIONS' = ParseInt(Args[1]).val
            /\ Handled("setnum", <<Msg(Caller, "number_set",
                                       Join(Str(NUM_QUESTIONS')), 0 - 1, NoQ)>>)
       ELSE /\ Handled("setnum_usage", <<Note(Caller, "setnum_usage")>>)
            /\ UNCHANGED NUM_QUESTIONS
    /\ UNCHANGED <<user_sessions, LANGUAGE, mcq_bank, bank_file>>

-----------------------------------------------------------------------------
(* The bot *)

Next ==
    \/ RecvDocument
    \/ RecvCallback
    \/ RecvForeignCallback
    \/ RecvCommand
    \/ StartFile
    \/ \E i \in 1..Len(tasks) : FileStore(i)
    \/ \E i \in 1..Len(tasks) : SendQuestion(i)
    \/ StartAnswer
    \/ \E i \in 1..Len(tasks) : AnswerGrade(i)
    \/ start
    \/ admin_command
    \/ backup_command
    \/ dumpbank_command
    \/ set_lang
    \/ set_num

Spec == Init /\ [][Next]_vars

-----------------------------------------------------------------------------
(* A bare call of the generator, for the claims about it as a function *)

Nums == {0 - 1, 0, 1, 2, 3, 5}
Langs == {"bn", "en", "fr"}

IdleBot ==
    /\ user_sessions = EmptyDict
    /\ LANGUAGE = "bn"
    /\ NUM_QUESTIONS = DefaultNumQuestions
    /\ bank_file = NoFile
    /\ mcq_bank = load_bank(bank_file)
    /\ update_queue = <<>>
    /\ tasks = <<>>
    /\ nextId = 0
    /\ messages = EmptyDict
    /\ outbox = <<>>
    /\ last = [op |-> "init", id |-> 0 - 1, u |-> 0]

GenInit ==
    /\ IdleBot
    /\ \E text \in Texts, num \in Nums, lang \in Langs :
          gen = [text |-> text, num |-> num, lang |-> lang, called |-> FALSE,
                 out |-> <<>>]

GenCall ==
    /\ ~gen.called
    /\ gen' = [gen EXCEPT !.called = TRUE,
                          !.out = generate_basic_mcqs(gen.text, gen.num, gen.lang)]
    /\ UNCHANGED <<user_sessions, LANGUAGE, NUM_QUESTIONS, mcq_bank, bank_file,
                   update_queue, tasks, nextId, messages, outbox, last>>

GenNext == GenCall

GenSpec == GenInit /\ [][GenNext]_vars

-----------------------------------------------------------------------------
(* One quiz taken to its end: a user uploads one document and then answers
   each question that is shown, one press per question; every handler that
   was started runs on, and the user does not walk away from a question. *)

LiveNums == {0, 1, 2, 5}
LiveLangs == {"bn", "en"}

\* a fresh process whose settings are any that /setlang and /setnum can leave
LiveInit ==
    /\ user_sessions = EmptyDict
    /\ LANGUAGE \in LiveLangs
    /\ NUM_QUESTIONS \in LiveNums
    /\ bank_file = NoFile
    /\ mcq_bank = load_bank(bank_file)
    /\ update_queue = <<>>
    /\ tasks = <<>>
    /\ nextId = 0
    /\ messages = EmptyDict
    /\ outbox = <<>>
    /\ last = [op |-> "init", id |-> 0 - 1, u |-> 0]
    /\ gen = NoGen

\* the one upload
LiveUpload ==
    \E u \in Users, f \in Files :
        /\ nextId = 0
        /\ Enqueue([id |-> nextId, u |-> u, type |-> "document", file |-> f])

\* the user presses a button of a question that is shown and not yet answered,
\* once no earlier press is waiting or being handled
LiveAnswer ==
    \E mid \in DOMAIN messages, k \in Taps :
        /\ messages[mid].keyboard
        /\ update_queue = <<>> /\ tasks = <<>>
        /\ Enqueue([id |-> nextId, u |-> messages[mid].to, type |-> "callback",
                    data |-> CallbackData(messages[mid].index, k), mid |-> mid])

LiveHandle ==
    \/ StartFile
    \/ \E i \in 1..Len(tasks) : FileStore(i)
    \/ \E i \in 1..Len(tasks) : SendQuestion(i)
    \/ StartAnswer
    \/ \E i \in 1..Len(tasks) : AnswerGrade(i)

LiveNext ==
    \/ LiveUpload
    \/ LiveAnswer
    \/ StartFile
    \/ \E i \in 1..Len(tasks) : FileStore(i)
    \/ \E i \in 1..Len(tasks) : SendQuestion(i)
    \/ StartAnswer
    \/ \E i \in 1..Len(tasks) : AnswerGrade(i)

LiveSpec ==
    /\ LiveInit
    /\ [][LiveNext]_vars
    /\ WF_vars(LiveHandle)
    /\ WF_vars(LiveAnswer)

-----------------------------------------------------------------------------
(* Vocabulary of the properties *)

\* the step just taken was a step of the handler tasks[i]
Stepped(i) == last'.id = tasks[i].id

\* the step just taken handled the command at the head of the queue
HandledCommand(cmds) ==
    /\ update_queue # <<>>
    /\ Head(update_queue).type = "command"
    /\ Head(update_queue).cmd \in cmds
    /\ last'.id = Head(update_queue).id
    /\ last'.op # "receive"

HasQualifyingLine(text) ==
    \E i \in 1..Len(text) : StrLen(Strip(text[i])) > 10

QuestionMids(u) == {mid \in DOMAIN messages : messages[mid].to = u}

\* the index the user's session expects an answer for: that of the question
\* sent last to the user
ExpectedIndex(u) ==
    messages[CHOOSE mid \in QuestionMids(u) :
                 \A other \in QuestionMids(u) : other <= mid].index

Denied(u) == <<Note(u, "permission_denied")>>

-----------------------------------------------------------------------------
(* Properties *)

\* C1: an answer whose question index is not the one the user's session
\* expects causes no transition: nothing is graded for it, no feedback is
\* sent and the handler ends without sending a next question.
C1_StaleAnswerRejected ==
    [][\A i \in 1..Len(tasks) :
          (/\ Stepped(i)
           /\ tasks[i].handler = "handle_answer" /\ tasks[i].pc = "grade"
           /\ ParseData(tasks[i].data).ok
           /\ QuestionMids(tasks[i].u) # {}
           /\ ParseData(tasks[i].data).index # ExpectedIndex(tasks[i].u))
          => (/\ last'.op # "answer_graded"
              /\ \A k \in 1..Len(outbox') : outbox'[k].kind # "feedback"
              /\ Len(tasks') < Len(tasks))]_vars

\* C2: an upload that yields no questions (empty text, or no line of trimmed
\* length above 10) leaves the session store as it was and is answered with
\* the failure notice.
C2_EmptyGenerationIsFailure ==
    [][\A i \in 1..Len(tasks) :
          (/\ Stepped(i)
           /\ tasks[i].handler = "handle_file" /\ tasks[i].pc = "extract"
           /\ ~ExtractText(tasks[i].file).raised
           /\ ~HasQualifyingLine(ExtractText(tasks[i].file).text))
          => (/\ user_sessions' = user_sessions
              /\ outbox' = <<Note(tasks[i].u, "extract_failed")>>
              /\ Len(tasks') < Len(tasks))]_vars

\* C3: set language, set count, backup and dumpbank, called by anyone but the
\* admin, answer permission denied and change neither the settings nor the
\* bank nor its file.
C3_AdminOnly ==
    [][(/\ HandledCommand({"setlang", "setnum", "backup", "dumpbank"})
        /\ Head(update_queue).u # ADMIN_ID)
       => (/\ outbox' = Denied(Head(update_queue).u)
           /\ UNCHANGED <<LANGUAGE, NUM_QUESTIONS, mcq_bank, bank_file>>)]_vars

\* C4, as claimed: for a text with a qualifying line the generator returns a
\* non-empty list of at most count records, each with answer 0.
C4_AtMostCount ==
    (gen.called /\ HasQualifyingLine(gen.text))
    => (/\ gen.out # <<>>
        /\ Len(gen.out) <= gen.num
        /\ \A i \in 1..Len(gen.out) : gen.out[i].answer = 0)

\* C4, amended: for a text with a qualifying line the generator returns a
\* non-empty list of at most max(1, count) records, each with answer 0.
C4_AtMostMaxOneCount ==
    (gen.called /\ HasQualifyingLine(gen.text))
    => (/\ gen.out # <<>>
        /\ Len(gen.out) <= (IF gen.num < 1 THEN 1 ELSE gen.num)
        /\ \A i \in 1..Len(gen.out) : gen.out[i].answer = 0)

C4_Witness ==
    /\ gen.called
    /\ gen.text = TThree
    /\ gen.num = 2
    /\ Len(gen.out) = 2

\* C5: an accepted answer for question i gets "Correct!" exactly when the
\* chosen option is the question's answer, otherwise "Wrong!" with the text of
\* the correct option; the message shows the explanation; and the handler goes
\* on to send question i+1, or the completion notice when i+1 is the number
\* of questions.
C5_GradingAndAdvance ==
    [][\A i \in 1..Len(tasks) :
          LET t == tasks[i]
              p == ParseData(t.data)
              mcqs == SessionMcqs(user_sessions, t.u)
              q == mcqs[p.index + 1]
              result == IF p.chosen = q.answer THEN "Correct!"
                        ELSE "Wrong! Correct: " \o q.options[q.answer + 1]
          IN  /\ (Stepped(i) /\ t.handler = "handle_answer" /\ t.pc = "grade"
                  /\ last'.op = "answer_graded")
                 => (/\ outbox' = <<Msg(t.u, "feedback", result, p.index, q)>>
                     /\ messages'[t.mid].text
                          = q.question \o "\n\n" \o result \o "\n" \o q.explanation
                     /\ tasks'[i].pc = "send_question"
                     /\ tasks'[i].index = p.index + 1)
              /\ (Stepped(i) /\ t.handler = "handle_answer" /\ t.pc = "send_question")
                 => (/\ p.index + 1 <= Len(mcqs)
                     /\ IF p.index + 1 = Len(mcqs)
                        THEN outbox' = <<Note(t.u, "done")>>
                        ELSE outbox' = <<Msg(t.u, "question", mcqs[p.index + 2].question,
                                             p.index + 1, mcqs[p.index + 2])>>)]_vars

C5_Witness ==
    /\ last.op = "answer_graded"
    /\ last.chosen = 1
    /\ outbox = <<Msg(last.u, "feedback", "Wrong! Correct: Paris", 0,
                      SessionMcqs(user_sessions, last.u)[1])>>

\* C6: a successful upload stores, as the one session of the user, exactly the
\* questions generated from the new document (nothing of the previous
\* session), and the question sent next is question 0 of that list.
C6_UploadReplacesSession ==
    [][\A i \in 1..Len(tasks) :
          LET t == tasks[i]
              ex == ExtractText(t.file)
              fresh == generate_basic_mcqs(ex.text, NUM_QUESTIONS, LANGUAGE)
          IN  /\ (Stepped(i) /\ t.handler = "handle_file" /\ t.pc = "extract"
                  /\ ~ex.raised /\ HasQualifyingLine(ex.text))
                 => (/\ DOMAIN user_sessions' = (DOMAIN user_sessions) \cup {t.u}
                     /\ user_sessions'[t.u] = [mcqs |-> fresh]
                     /\ \A u \in DOMAIN user_sessions :
                           u # t.u => user_sessions'[u] = user_sessions[u])
              /\ (Stepped(i) /\ t.handler = "handle_file" /\ t.pc = "send_question"
                  /\ t.mcqs # <<>>)
                 => outbox' = <<Msg(t.u, "question", t.mcqs[1].question, 0,
                                   t.mcqs[1])>>]_vars

C6_Witness ==
    /\ last.op = "file_sent"
    /\ outbox # <<>>
    /\ outbox[1].kind = "question"
    /\ outbox[1].index = 0
    /\ \E mid \in QuestionMids(last.u) :
          mid >= 0 /\ mid < last.id /\ messages[mid].q # outbox[1].q

KeyOf(u) == IF u = 1 THEN <<"1">> ELSE <<"2">>

\* C7: the admin's backup sets the bank entry under str(uid) to the session's
\* question list for every user whose session has questions, and leaves the
\* entry of every other user as it was (absent, or unchanged).
C7_MergeOverwrites ==
    [][(HandledCommand({"backup"}) /\ Head(update_queue).u = ADMIN_ID)
       => \A u \in Users :
             IF u \in DOMAIN user_sessions /\ user_sessions[u].mcqs # <<>>
             THEN /\ KeyOf(u) \in DOMAIN mcq_bank'
                  /\ mcq_bank'[KeyOf(u)] = user_sessions[u].mcqs
             ELSE /\ (KeyOf(u) \in DOMAIN mcq_bank') = (KeyOf(u) \in DOMAIN mcq_bank)
                  /\ (KeyOf(u) \in DOMAIN mcq_bank)
                     => mcq_bank'[KeyOf(u)] = mcq_bank[KeyOf(u)]]_vars

C7_Witness ==
    /\ last.op = "backup"
    /\ 1 \in DOMAIN user_sessions /\ user_sessions[1].mcqs # <<>>
    /\ 2 \in DOMAIN user_sessions /\ user_sessions[2].mcqs = <<>>
    /\ DOMAIN mcq_bank = {<<"1">>, <<"2">>}
    /\ mcq_bank[<<"1">>] = user_sessions[1].mcqs
    /\ mcq_bank[<<"2">>] = OldList

C9_SessionKeptUntilNextUpload ==
    [][\A u \in DOMAIN user_sessions :
          \/ (u \in DOMAIN user_sessions' /\ user_sessions'[u] = user_sessions[u])
          \/ (/\ last'.op = "file_stored" /\ last'.u = u
              /\ u \in DOMAIN user_sessions'
              /\ user_sessions'[u].mcqs # <<>>)]_vars

\* C10: the bank and its file change only in a backup run by the admin.
C10_BankOnlyByAdminMerge ==
    [][(mcq_bank' # mcq_bank \/ bank_file' # bank_file)
       => (last'.op = "backup" /\ last'.u = ADMIN_ID)]_vars

C10_Witness ==
    /\ last.op = "backup"
    /\ <<"1">> \in DOMAIN mcq_bank
    /\ bank_file = OkFile(mcq_bank)

\* C11: after an accepted answer for question i, if i+1 is the number of
\* questions of the user's session the completion notice is sent and no
\* question; if i+1 is smaller, question i+1 is sent and no completion notice.
C11_CompletionOrNext ==
    [][\A i \in 1..Len(tasks) :
          LET t == tasks[i]
              mcqs == SessionMcqs(user_sessions, t.u)
              answered == ParseData(t.data).index
          IN  (Stepped(i) /\ t.handler = "handle_answer" /\ t.pc = "send_question")
              => /\ (answered + 1 = Len(mcqs))
                    => (/\ outbox' = <<Note(t.u, "done")>>
                        /\ messages' = messages)
                 /\ (answered + 1 < Len(mcqs))
                    => (/\ outbox' = <<Msg(t.u, "question", mcqs[answered + 2].question,
                                           answered + 1, mcqs[answered + 2])>>
                        /\ messages'[t.id].index = answered + 1
                        /\ \A k \in 1..Len(outbox') : outbox'[k].kind # "done")]_vars

C11_Witness ==
    /\ last.op = "answer_sent"
    /\ last.index = 2
    /\ Len(SessionMcqs(user_sessions, last.u)) = 2
    /\ outbox = <<Note(last.u, "done")>>

\* C12: an answer of a user without a session, an answer whose question index
\* is negative or not below the number of questions of the user's session, and
\* an answer whose data is not "index:option" each leave the pressed message
\* showing an error, produce no feedback and no question, end the handler, and
\* leave the sessions as they are.
C12_InvalidAnswerRejected ==
    [][\A i \in 1..Len(tasks) :
          LET t == tasks[i]
              p == ParseData(t.data)
              mcqs == SessionMcqs(user_sessions, t.u)
          IN  (/\ Stepped(i)
               /\ t.handler = "handle_answer" /\ t.pc = "grade"
               /\ \/ ~p.ok
                  \/ t.u \notin DOMAIN user_sessions
                  \/ p.index < 0
                  \/ p.index >= Len(mcqs))
              => (/\ messages'[t.mid].text
                       = (IF p.ok THEN "Question index error." ELSE "Invalid response.")
                  /\ ~messages'[t.mid].keyboard
                  /\ \A k \in 1..Len(outbox') :
                         outbox'[k].kind \notin {"feedback", "question", "done"}
                  /\ \A j \in 1..Len(tasks') : tasks'[j].id # t.id
                  /\ user_sessions' = user_sessions)]_vars

C12_Witness ==
    /\ last.op = "answer_refused"
    /\ last.index = 0 - 1
    /\ Len(SessionMcqs(user_sessions, last.u)) = 2
    /\ outbox = <<Note(last.u, "index_error")>>
    /\ messages[OldMid].text = "Question index error."

\* C13: a step of a handler of user A leaves the session of every other user
\* as it is (none created, replaced or changed), sends only to A, and every
\* question it grades or sends is the question of that index in A's session.
C13_UsersDoNotInterfere ==
    [][\A i \in 1..Len(tasks) :
          LET a == tasks[i].u
          IN  Stepped(i)
              => (/\ \A b \in Users \ {a} :
                        /\ (b \in DOMAIN user_sessions') = (b \in DOMAIN user_sessions)
                        /\ (b \in DOMAIN user_sessions)
                           => (user_sessions'[b] = user_sessions[b])
                  /\ \A k \in 1..Len(outbox') :
                        /\ outbox'[k].to = a
                        /\ (outbox'[k].kind \in {"question", "feedback"})
                           => (/\ a \in DOMAIN user_sessions'
                               /\ outbox'[k].index >= 0
                               /\ outbox'[k].index < Len(user_sessions'[a].mcqs)
                               /\ outbox'[k].q
                                    = user_sessions'[a].mcqs[outbox'[k].index + 1]))]_vars

C13_Witness ==
    /\ last.op = "answer_graded"
    /\ last.u = 2
    /\ DOMAIN user_sessions = {1, 2}
    /\ Len(user_sessions[1].mcqs) = 2
    /\ Len(user_sessions[2].mcqs) = 3
    /\ outbox = <<Msg(2, "feedback", "Correct!", 0, user_sessions[2].mcqs[1])>>

\* C14: in every reachable state the number of questions to generate is a
\* positive integer, whatever /setnum commands were received.
C14_CountPositive == NUM_QUESTIONS >= 1

\* C15: /setlang and /setnum leave every session and the bank, in memory and
\* on file, as they are; an upload generates with the language and the count
\* that are set when its generation step runs: every question it stores is
\* worded in that language and their number is bounded by that count.
C15_SettingsNotRetroactive ==
    [][/\ HandledCommand({"setlang", "setnum"})
          => (/\ user_sessions' = user_sessions
              /\ mcq_bank' = mcq_bank
              /\ bank_file' = bank_file)
       /\ \A i \in 1..Len(tasks) :
             LET t == tasks[i]
                 new == user_sessions'[t.u].mcqs
             IN  (Stepped(i) /\ last'.op = "file_stored")
                 => (/\ Len(new) = Min(Len(QualifyingLines(ExtractText(t.file).text)),
                                       Max(1, NUM_QUESTIONS))
                     /\ \A k \in 1..Len(new) :
                           new[k].question
                             = (IF LANGUAGE = "bn"
                                THEN "[bn]Q: " \o new[k].options[1]
                                       \o " [bn]which is correct?"
                                ELSE "Question: Which of the following about '"
                                       \o new[k].options[1] \o "' is correct?"))]_vars

C15_Witness ==
    /\ last.op = "file_stored"
    /\ last.u = 2
    /\ LANGUAGE = "en"
    /\ DOMAIN user_sessions = {1, 2}
    /\ user_sessions[1].mcqs # <<>>
    /\ user_sessions[1].mcqs[1].question = "[bn]Q: Paris [bn]which is correct?"
    /\ user_sessions[2].mcqs # <<>>
    /\ user_sessions[2].mcqs[1].question
         = "Question: Which of the following about 'Paris' is correct?"

\* C16: when the text of an uploaded document cannot be extracted, whatever
\* its type, no exception leaves handle_file: the user gets the failure notice
\* and the sessions stay as they are.
C16_ExtractionFailureIsNotice ==
    [][\A i \in 1..Len(tasks) :
          LET t == tasks[i]
          IN  (/\ Stepped(i)
               /\ t.handler = "handle_file" /\ t.pc = "extract"
               /\ t.file.content = Corrupt)
              => (/\ last'.op # "file_raised"
                  /\ outbox' = <<Note(t.u, "extract_failed")>>
                  /\ user_sessions' = user_sessions)]_vars

\* C17: an accepted answer is graded against the question that the pressed
\* message displayed; shown here for the messages this process sent itself.
C17_GradedAgainstDisplayed ==
    [][\A i \in 1..Len(tasks) :
          LET t == tasks[i]
          IN  (/\ Stepped(i)
               /\ t.handler = "handle_answer" /\ t.pc = "grade"
               /\ t.mid >= 0
               /\ last'.op = "answer_graded")
              => (outbox'[1].q = messages[t.mid].q)]_vars

\* C18: the questions of a session are presented in order: a question with
\* index i+1 is on the screen only if question i of the same session was
\* presented before it, with no upload's first question in between.
C18_PresentedInOrder ==
    \A mid \in DOMAIN messages :
        LET m == messages[mid]
        IN  (mid >= 0 /\ m.index > 0)
            => \E prev \in DOMAIN messages :
                   /\ prev < mid
                   /\ messages[prev].to = m.to
                   /\ messages[prev].index = m.index - 1
                   /\ \A first \in DOMAIN messages :
                          (/\ messages[first].to = m.to
                           /\ messages[first].index = 0
                           /\ first < mid)
                          => first <= prev

\* C20: /backup, /dumpbank and /admin from a caller other than the admin are
\* answered with "permission denied" and leave the bank, its file and the
\* sessions as they are; the admin is not turned away.
C20_NonAdminDenied ==
    [][HandledCommand({"backup", "dumpbank", "admin"})
       => LET caller == Head(update_queue).u
          IN  IF caller # ADMIN_ID
              THEN /\ outbox' = Denied(caller)
                   /\ mcq_bank' = mcq_bank
                   /\ bank_file' = bank_file
                   /\ user_sessions' = user_sessions
              ELSE /\ outbox' # Denied(caller)
                   /\ user_sessions' = user_sessions]_vars

C20_Witness ==
    /\ last.op = "backup_denied"
    /\ last.u # ADMIN_ID
    /\ SessionMcqs(user_sessions, last.u) # <<>>
    /\ outbox = Denied(last.u)
    /\ mcq_bank = EmptyDict
    /\ bank_file = NoFile

\* C19: when a user has a session of at least one question, uploads nothing
\* more, answers each question that is shown, and every update is handled,
\* the completion notice is eventually sent to that user.
C19_EventuallyDone ==
    \A u \in Users :
        (u \in DOMAIN user_sessions /\ user_sessions[u].mcqs # <<>>)
        ~> (last.op = "answer_sent" /\ outbox = <<Note(u, "done")>>)

C19_Witness ==
    /\ last.op = "answer_sent"
    /\ last.index = 3
    /\ Len(SessionMcqs(user_sessions, last.u)) = 3
    /\ outbox = <<Note(last.u, "done")>>
    /\ \A mid \in DOMAIN messages : ~messages[mid].keyboard

====
